---- MODULE Spec2Model ----
(***************************************************************************)
(* Model of the map_reducer service (main.go) and of its driver (test.sh). *)
(* Strings are sequences of one-character strings, so that the byte-level  *)
(* work of the handlers (address parsing, line splitting, tokenizing,      *)
(* JSON encoding and decoding) is computed and not assumed.                *)
(***************************************************************************)
EXTENDS Integers, Sequences, FiniteSets, TLC

(***************************************************************************)
(* Characters                                                              *)
(***************************************************************************)
NL == "\n"

Digit == <<"0", "1", "2", "3", "4", "5", "6", "7", "8", "9">>

UpperCase == <<"A", "B", "C", "D", "E", "F", "G", "H", "I", "J", "K", "L", "M",
               "N", "O", "P", "Q", "R", "S", "T", "U", "V", "W", "X", "Y", "Z">>

LowerCase == <<"a", "b", "c", "d", "e", "f", "g", "h", "i", "j", "k", "l", "m",
               "n", "o", "p", "q", "r", "s", "t", "u", "v", "w", "x", "y", "z">>

\* U+212A KELVIN SIGN, a non-ASCII character (three bytes in UTF-8)
Kelvin == "U+212A"

\* the characters the model uses, in increasing byte order
ByteOrder == <<NL, " ", "!", "\"", ",", "-", ".", "/">> \o Digit \o <<":">>
             \o UpperCase \o LowerCase \o <<"{", "}", Kelvin>>

Range(s) == {s[n] : n \in DOMAIN s}

Ord(ch) == CHOOSE n \in DOMAIN ByteOrder : ByteOrder[n] = ch

IsDigit(ch) == ch \in Range(Digit)

\* the character class [A-Za-z0-9] of the mapper's regular expression
IsAlnum(ch) == ch \in Range(Digit) \cup Range(UpperCase) \cup Range(LowerCase)

\* unicode.ToLower left out: every character is kept as it is
LowerOf_Identity(ch) == ch

\* unicode.ToLower: besides A-Z, the KELVIN SIGN has the ASCII lower case k
LowerOf(ch) ==
    IF ch \in Range(UpperCase)
    THEN LowerCase[CHOOSE n \in DOMAIN UpperCase : UpperCase[n] = ch]
    ELSE IF ch = Kelvin THEN "k"
    ELSE ch

\* the text as it is, without strings.ToLower
ToLower_None(s) == s

\* strings.ToLower: maps every character of s by unicode.ToLower
ToLower(s) == [n \in DOMAIN s |-> LowerOf(s[n])]

(***************************************************************************)
(* String helpers of the Go standard library                               *)
(***************************************************************************)
HasPrefix(s, p) == Len(s) >= Len(p) /\ SubSeq(s, 1, Len(p)) = p

HasSuffix(s, p) == Len(s) >= Len(p) /\ SubSeq(s, Len(s) - Len(p) + 1, Len(s)) = p

TrimPrefix(s, p) == IF HasPrefix(s, p) THEN SubSeq(s, Len(p) + 1, Len(s)) ELSE s

TrimSuffix(s, p) == IF HasSuffix(s, p) THEN SubSeq(s, 1, Len(s) - Len(p)) ELSE s

\* strings.IndexByte: 0-based index of the first ch in s, -1 when there is none
IndexByte(s, ch) ==
    IF \E n \in DOMAIN s : s[n] = ch
    THEN (CHOOSE n \in DOMAIN s : s[n] = ch /\ \A m \in 1..(n - 1) : s[m] # ch) - 1
    ELSE -1

\* strings.Split(s, "\n"): always at least one element
RECURSIVE SplitLines(_)
SplitLines(s) ==
    LET n == IndexByte(s, NL)
    IN  IF n < 0 THEN <<s>>
        ELSE <<SubSeq(s, 1, n)>> \o SplitLines(SubSeq(s, n + 2, Len(s)))

\* strings.Join(ls, sep)
RECURSIVE Join(_, _)
Join(ls, sep) ==
    IF Len(ls) = 0 THEN <<>>
    ELSE IF Len(ls) = 1 THEN ls[1]
    ELSE ls[1] \o sep \o Join(Tail(ls), sep)

\* the %d verb of fmt.Sprintf, for n >= 0
RECURSIVE Itoa(_)
Itoa(n) == IF n < 10 THEN <<Digit[n + 1]>> ELSE Itoa(n \div 10) \o <<Digit[(n % 10) + 1]>>

DigitVal(ch) == (CHOOSE n \in DOMAIN Digit : Digit[n] = ch) - 1

RECURSIVE Atoi(_)
Atoi(s) == IF Len(s) = 0 THEN 0 ELSE 10 * Atoi(SubSeq(s, 1, Len(s) - 1)) + DigitVal(s[Len(s)])

\* byte-wise order on strings, the order in which encoding/json writes map keys
RECURSIVE StrLess(_, _)
StrLess(s, t) ==
    IF Len(t) = 0 THEN FALSE
    ELSE IF Len(s) = 0 THEN TRUE
    ELSE IF s[1] = t[1] THEN StrLess(Tail(s), Tail(t))
    ELSE Ord(s[1]) < Ord(t[1])

(***************************************************************************)
(* Blob addresses                                                          *)
(***************************************************************************)
S3Scheme == <<"s", "3", ":", "/", "/">>

Slash == <<"/">>

\* parseS3: bucket and key of an S3 URL.  trim[:i] with i = -1 is a slice
\* bound violation, which the run time turns into a panic.
parseS3(url) ==
    LET trim == TrimPrefix(url, S3Scheme)
        i    == IndexByte(trim, "/")
    IN  IF i < 0
        THEN [panic |-> TRUE, bucket |-> <<>>, key |-> <<>>]
        ELSE [panic  |-> FALSE,
              bucket |-> SubSeq(trim, 1, i),
              key    |-> SubSeq(trim, i + 2, Len(trim))]

\* fmt.Sprintf("s3://%s/%s", bucket, key)
S3Url(bucket, key) == S3Scheme \o bucket \o Slash \o key

(***************************************************************************)
(* Splitter: contiguous partition of the lines                             *)
(***************************************************************************)
\* parts := 3 in the /split handler; the "parts" query parameter is not read
parts == 3

\* chunkSize := (len(lines) + parts - 1) / parts
chunkSize(lines) == (Len(lines) + parts - 1) \div parts

\* start := i * chunkSize
start(lines, i) == i * chunkSize(lines)

\* end := (i + 1) * chunkSize, clamped to len(lines)
end(lines, i) ==
    IF (i + 1) * chunkSize(lines) > Len(lines)
    THEN Len(lines)
    ELSE (i + 1) * chunkSize(lines)

\* lines[start:end] panics when start > end
slicePanics(lines, i) == start(lines, i) > end(lines, i)

\* chunk := strings.Join(lines[start:end], "\n")
chunk(lines, i) == Join(SubSeq(lines, start(lines, i) + 1, end(lines, i)), <<NL>>)

ChunkPrefix == <<"c", "h", "u", "n", "k", "-">>

TxtSuffix == <<".", "t", "x", "t">>

\* the key without strings.TrimSuffix
outKey_NoTrim(prefix, i) == prefix \o Slash \o ChunkPrefix \o Itoa(i) \o TxtSuffix

\* outKey := fmt.Sprintf("%schunk-%d.txt", strings.TrimSuffix(prefix, "/")+"/", i)
outKey(prefix, i) == TrimSuffix(prefix, Slash) \o Slash \o ChunkPrefix \o Itoa(i) \o TxtSuffix

(***************************************************************************)
(* Mapper: tokenizing and counting                                         *)
(***************************************************************************)
\* length of the longest prefix of s made of [A-Za-z0-9]
RunLen(s) ==
    IF \E n \in DOMAIN s : ~IsAlnum(s[n])
    THEN (CHOOSE n \in DOMAIN s : ~IsAlnum(s[n]) /\ \A m \in 1..(n - 1) : IsAlnum(s[m])) - 1
    ELSE Len(s)

\* a pattern without the "+": every letter or digit is a match of its own
RECURSIVE FindAllString_NoPlus(_)
FindAllString_NoPlus(s) ==
    IF Len(s) = 0 THEN <<>>
    ELSE IF ~IsAlnum(s[1]) THEN FindAllString_NoPlus(Tail(s))
    ELSE <<SubSeq(s, 1, 1)>> \o FindAllString_NoPlus(Tail(s))

\* regexp.MustCompile(`[A-Za-z0-9]+`).FindAllString(s, -1)
RECURSIVE FindAllString(_)
FindAllString(s) ==
    IF Len(s) = 0 THEN <<>>
    ELSE IF ~IsAlnum(s[1]) THEN FindAllString(Tail(s))
    ELSE <<SubSeq(s, 1, RunLen(s))>> \o FindAllString(SubSeq(s, RunLen(s) + 1, Len(s)))

\* map[string]int{}
EmptyMap == <<>>

Get(m, k) == IF k \in DOMAIN m THEN m[k] ELSE 0

\* m[k] += v
AddTo(m, k, v) == [x \in DOMAIN m \cup {k} |-> IF x = k THEN Get(m, k) + v ELSE m[x]]

\* for _, w := range words { counts[w]++ }
RECURSIVE CountWords(_, _)
CountWords(counts, words) ==
    IF Len(words) = 0 THEN counts
    ELSE CountWords(AddTo(counts, words[1], 1), Tail(words))

\* the counts of the /map handler for the bytes of a chunk
counts(text) == CountWords(EmptyMap, FindAllString(ToLower(text)))

(***************************************************************************)
(* encoding/json for map[string]int                                        *)
(***************************************************************************)
Quote == "\""

\* the keys of a map in increasing byte order
RECURSIVE SortedKeys(_)
SortedKeys(ks) ==
    IF ks = {} THEN <<>>
    ELSE LET k == CHOOSE x \in ks : \A y \in ks \ {x} : StrLess(x, y)
         IN  <<k>> \o SortedKeys(ks \ {k})

RECURSIVE MarshalMembers(_, _)
MarshalMembers(m, ks) ==
    IF Len(ks) = 0 THEN <<>>
    ELSE <<Quote>> \o ks[1] \o <<Quote, ":">> \o Itoa(m[ks[1]])
         \o (IF Len(ks) = 1 THEN <<>> ELSE <<",">> \o MarshalMembers(m, Tail(ks)))

\* json.Marshal(m): {"k1":n1,"k2":n2} with the keys sorted
Marshal(m) == <<"{">> \o MarshalMembers(m, SortedKeys(DOMAIN m)) \o <<"}">>

\* one member "key":digits at the head of s; rest is what follows it
ParseMember(s) ==
    LET body  == Tail(s)
        q     == IndexByte(body, Quote)
        after == SubSeq(body, q + 2, Len(body))
        num   == Tail(after)
        nd    == IF \E n \in DOMAIN num : ~IsDigit(num[n])
                 THEN (CHOOSE n \in DOMAIN num :
                          ~IsDigit(num[n]) /\ \A j \in 1..(n - 1) : IsDigit(num[j])) - 1
                 ELSE Len(num)
    IN  IF Len(s) = 0 \/ s[1] # Quote \/ q < 0 \/ Len(after) = 0 \/ after[1] # ":" \/ nd = 0
        THEN [ok |-> FALSE, key |-> <<>>, val |-> 0, rest |-> <<>>]
        ELSE [ok   |-> TRUE,
              key  |-> SubSeq(body, 1, q),
              val  |-> Atoi(SubSeq(num, 1, nd)),
              rest |-> SubSeq(num, nd + 1, Len(num))]

RECURSIVE ParseMembers(_, _)
ParseMembers(s, m) ==
    LET p == ParseMember(s)
    IN  IF ~p.ok THEN [ok |-> FALSE, m |-> EmptyMap]
        ELSE LET m2 == [x \in DOMAIN m \cup {p.key} |-> IF x = p.key THEN p.val ELSE m[x]]
             IN  IF Len(p.rest) = 0 THEN [ok |-> TRUE, m |-> m2]
                 ELSE IF p.rest[1] # "," THEN [ok |-> FALSE, m |-> EmptyMap]
                 ELSE ParseMembers(Tail(p.rest), m2)

\* json.Unmarshal(data, &m) with m empty: the parsed map and whether an error
\* is returned; invalid input leaves m as it was
Unmarshal(data) ==
    IF Len(data) < 2 \/ data[1] # "{" \/ data[Len(data)] # "}"
    THEN [ok |-> FALSE, m |-> EmptyMap]
    ELSE IF Len(data) = 2 THEN [ok |-> TRUE, m |-> EmptyMap]
    ELSE ParseMembers(SubSeq(data, 2, Len(data) - 1), EmptyMap)

(***************************************************************************)
(* Reducer: key-wise sum                                                   *)
(***************************************************************************)
\* for k, v := range m { total[k] += v }
RECURSIVE MergeKeys(_, _, _)
MergeKeys(total, m, ks) ==
    IF ks = {} THEN total
    ELSE LET k == CHOOSE x \in ks : TRUE
         IN  MergeKeys(AddTo(total, k, m[k]), m, ks \ {k})

\* total[k] = v in place of total[k] += v
Merge_Assign(total, m) ==
    [x \in DOMAIN total \cup DOMAIN m |-> IF x \in DOMAIN m THEN m[x] ELSE total[x]]

\* a key already in total keeps its count
Merge_KeepFirst(total, m) ==
    [x \in DOMAIN total \cup DOMAIN m |-> IF x \in DOMAIN total THEN total[x] ELSE m[x]]

Merge(total, m) == MergeKeys(total, m, DOMAIN m)

\* the total of the /reduce loop over the downloaded bytes, from total on
RECURSIVE FoldBlobs(_, _)
FoldBlobs(total, blobs) ==
    IF Len(blobs) = 0 THEN total
    ELSE FoldBlobs(Merge(total, Unmarshal(blobs[1]).m), Tail(blobs))

\* total := map[string]int{} and the whole loop
reduceTotal(blobs) == FoldBlobs(EmptyMap, blobs)

(***************************************************************************)
(* Deployment and driver configuration (test.sh)                           *)
(***************************************************************************)
Instances == {"SPLITTER_IP", "MAPPER_IP", "REDUCER_IP"}

\* mode := os.Getenv("MODE"), read once when the instance starts
mode == [ip \in Instances |->
            CASE ip = "SPLITTER_IP" -> "splitter"
              [] ip = "MAPPER_IP"   -> "mapper"
              [] ip = "REDUCER_IP"  -> "reducer"]

BUCKET == <<"b">>

\* the buckets that exist in the blob store
Buckets == {BUCKET}

DocKey == <<"d", "o", "c", ".", "t", "x", "t">>

\* INPUT="s3://$BUCKET/doc.txt"
INPUT == S3Url(BUCKET, DocKey)

\* OUT_PREFIX="splits/${RUNID}-${PARTS}/", RUNID being unset
OUT_PREFIX(P) == <<"s", "p", "l", "i", "t", "s", "/", "-">> \o Itoa(P) \o Slash

\* MAP_PREFIX="maps/${RUNID}-${PARTS}/"
MAP_PREFIX(P) == <<"m", "a", "p", "s", "/", "-">> \o Itoa(P) \o Slash

\* REDUCE_OUT="reduce/${RUNID}-${PARTS}/final.json"
REDUCE_OUT(P) == <<"r", "e", "d", "u", "c", "e", "/", "-">> \o Itoa(P) \o <<"/", "f", "i", "n", "a", "l", ".", "j", "s", "o", "n">>

\* CHUNK="s3://$BUCKET/${OUT_PREFIX}chunk-$i.txt"
CHUNK(P, i) == S3Url(BUCKET, OUT_PREFIX(P) \o ChunkPrefix \o Itoa(i) \o TxtSuffix)

\* an output address without the loop index: every map call gets the same one
OUTMAP_NoIndex(P, i) ==
    S3Url(BUCKET, MAP_PREFIX(P) \o <<"m", "a", "p", "-", ".", "j", "s", "o", "n">>)

\* OUTMAP="s3://$BUCKET/${MAP_PREFIX}map-$i.json"
OUTMAP(P, i) == S3Url(BUCKET, MAP_PREFIX(P) \o <<"m", "a", "p", "-">> \o Itoa(i) \o <<".", "j", "s", "o", "n">>)

\* IN_PARAMS: &in=s3://$BUCKET/${MAP_PREFIX}map-$i.json for i = 0..PARTS-1
IN_PARAMS(P) == [n \in 1..P |-> OUTMAP(P, n - 1)]

FINAL(P) == S3Url(BUCKET, REDUCE_OUT(P))

(***************************************************************************)
(* Bounds and input sets                                                   *)
(***************************************************************************)
\* longest generated document, in characters
MaxLen == 2

\* largest PARTS the driver is run with
MaxParts == 3

\* number of requests sent by clients other than the driver
MaxCalls == 2

\* number of blob-store operations that fail for an outside reason
MaxFaults == 1

\* the characters of the generated documents
Alphabet == {"A", NL}

RECURSIVE StringsUpTo(_)
StringsUpTo(n) ==
    IF n = 0 THEN {<<>>}
    ELSE LET shorter == StringsUpTo(n - 1)
         IN  shorter \cup {Append(t, ch) : t \in {u \in shorter : Len(u) = n - 1}, ch \in Alphabet}

\* the example document of the end-to-end test
KingDoc == <<"T", "h", "e", " ", "k", "i", "n", "g", ".", " ", "T", "h", "e", " ", "k", "i", "n", "g", " ", "i", "s", " ", "d", "e", "a", "d", ".", " ", "L", "o", "n", "g", " ", "l", "i", "v", "e", " ", "t", "h", "e", " ", "k", "i", "n", "g", "!">>

\* a document of five lines
FiveLines == <<"a", " ", "B", NL, "b", NL, NL, "A", "1", ".", "a", NL, "b">>

\* the documents the driver is run on
Docs == StringsUpTo(MaxLen) \cup {KingDoc, FiveLines}

\* a document of two lines with a KELVIN SIGN inside a word
KelvinDoc == <<"a", Kelvin, ".", "B", NL, "a">>

\* the documents the other clients work on
Texts == {KelvinDoc}

\* addresses and prefixes used by the other clients
OutAddr == S3Url(BUCKET, <<"o">>)

\* "s3://b": nothing separates a container from a key
NoSlashAddr == S3Scheme \o BUCKET

\* "s3:/bucket": the scheme separator is cut short
OneSlashAddr == <<"s", "3", ":", "/", "b", "u", "c", "k", "e", "t">>

Prefixes == {<<"p">>, <<"p", "/", "/">>}

(***************************************************************************)
(* State                                                                   *)
(***************************************************************************)
VARIABLES
    doc,     \* the bytes stored at INPUT before any request
    store,   \* the blob store: <<bucket, key>> -> bytes
    calls,   \* the requests received so far, each with its handler's locals
    driver,  \* test.sh: its position, PARTS and loop counter
    faults   \* blob-store operations that failed for an outside reason

vars == <<doc, store, calls, driver, faults>>

\* a handler whose total is declared outside of it: a request starts with
\* the total the request before it has left
NewCall_SharedTotal(op, ip, input, inputs, out, partsq) ==
    [op     |-> op,
     ip     |-> ip,
     input  |-> input,
     inputs |-> inputs,
     out    |-> out,
     partsq |-> partsq,
     pc     |-> "recv",
     status |-> 0,
     err    |-> "",
     body   |-> <<>>,
     bucket |-> <<>>,
     lines  |-> <<>>,
     i      |-> 0,
     urls   |-> <<>>,
     js     |-> <<>>,
     total  |-> IF Len(calls) = 0 THEN EmptyMap ELSE calls[Len(calls)].total,
     gets   |-> 0,
     puts   |-> 0,
     reads  |-> <<>>,
     wrote  |-> <<>>,
     slices |-> <<>>]

\* a request as it is received by the router
NewCall(op, ip, input, inputs, out, partsq) ==
    [op     |-> op,        \* "split", "map" or "reduce"
     ip     |-> ip,        \* the instance the request is sent to
     input  |-> input,     \* input_s3 or chunk_s3
     inputs |-> inputs,    \* the "in" parameters of /reduce
     out    |-> out,       \* out_prefix or out_s3
     partsq |-> partsq,    \* the "parts" parameter of /split
     pc     |-> "recv",
     status |-> 0,         \* HTTP status of the response, 0 while in flight
     err    |-> "",        \* "mode", "panic" (slice bound) or "store"
     body   |-> <<>>,      \* the JSON body of a 200 response
     bucket |-> <<>>,
     lines  |-> <<>>,
     i      |-> 0,
     urls   |-> <<>>,
     js     |-> <<>>,
     total  |-> EmptyMap,
     gets   |-> 0,         \* downloader.Download calls made
     puts   |-> 0,         \* uploader.Upload calls made
     reads  |-> <<>>,      \* the bytes each successful Download returned
     wrote  |-> <<>>,      \* <<url, bytes>> of each successful Upload
     slices |-> <<>>]      \* the line slices the splitter uploaded

\* the requests of the other clients
Requests ==
    {NewCall("split", "SPLITTER_IP", INPUT, <<>>, pre, 3) : pre \in Prefixes}
    \cup {NewCall("split", "SPLITTER_IP", OneSlashAddr, <<>>, <<"p">>, 3)}
    \cup {NewCall("map", "MAPPER_IP", INPUT, <<>>, o, 0) : o \in {OutAddr, NoSlashAddr}}
    \cup {NewCall("reduce", "REDUCER_IP", <<>>, l, OutAddr, 0) :
             l \in {<<OutAddr, OutAddr>>, <<INPUT, OutAddr>>, <<OutAddr, NoSlashAddr>>}}
    \cup {NewCall("split", "MAPPER_IP", INPUT, <<>>, <<"p">>, 3),
          NewCall("map", "REDUCER_IP", NoSlashAddr, <<>>, OutAddr, 0),
          NewCall("reduce", "SPLITTER_IP", <<>>, <<OutAddr>>, OutAddr, 0)}

DriverOff == [pc |-> "off", PARTS |-> 0, i |-> 0, joined |-> FALSE]

\* the CountMap an earlier run has left at OutAddr
OldMap == Marshal([k \in {<<"z">>} |-> 1])

Init ==
    /\ \/ /\ driver = DriverOff
          /\ doc \in Texts
          /\ store = [a \in {<<BUCKET, DocKey>>, <<BUCKET, <<"o">>>>} |->
                        IF a = <<BUCKET, DocKey>> THEN doc ELSE OldMap]
       \/ /\ driver \in {[pc |-> "split", PARTS |-> P, i |-> 0, joined |-> FALSE] :
                             P \in 1..MaxParts}
          /\ doc \in Docs
          /\ store = [a \in {<<BUCKET, DocKey>>} |-> doc]
    /\ calls = <<>>
    /\ faults = 0

(***************************************************************************)
(* Blob store                                                              *)
(***************************************************************************)
\* whether an operation may fail for a reason outside the program
MayFail == IF faults < MaxFaults THEN BOOLEAN ELSE {FALSE}

\* GetObject fails when the object does not exist
Present(bucket, key) == <<bucket, key>> \in DOMAIN store

\* an upload that adds the data at the end of the object already there
Put_Append(bucket, key, data) ==
    [a \in DOMAIN store \cup {<<bucket, key>>} |->
        IF a # <<bucket, key>> THEN store[a]
        ELSE IF a \in DOMAIN store THEN store[a] \o data ELSE data]

\* an upload that leaves an object already there as it is
Put_KeepFirst(bucket, key, data) ==
    [a \in DOMAIN store \cup {<<bucket, key>>} |->
        IF a \in DOMAIN store THEN store[a] ELSE data]

\* PutObject replaces the whole object
Put(bucket, key, data) ==
    [a \in DOMAIN store \cup {<<bucket, key>>} |->
        IF a = <<bucket, key>> THEN data ELSE store[a]]

\* a response that is not followed by "return": the handler goes on
Finish_NoReturn(c, status, err, body) ==
    [c EXCEPT !.status = status, !.err = err, !.body = body]

\* c.String / c.JSON followed by the handler's return
Finish(c, status, err, body) ==
    [c EXCEPT !.pc = "done", !.status = status, !.err = err, !.body = body]

InFlight(n) == n \in DOMAIN calls /\ calls[n].pc # "done"

(***************************************************************************)
(* GET /split                                                              *)
(***************************************************************************)
\* the handler up to and including the download of the input
SplitDownload(n) ==
    LET c == calls[n]
        p == parseS3(c.input)
    IN  /\ InFlight(n) /\ c.op = "split" /\ c.pc = "recv"
        /\ \/ /\ mode[c.ip] # "splitter"
              /\ calls' = [calls EXCEPT ![n] = Finish(c, 400, "mode", <<>>)]
              /\ UNCHANGED faults
           \/ /\ mode[c.ip] = "splitter" /\ p.panic
              /\ calls' = [calls EXCEPT ![n] = Finish(c, 500, "panic", <<>>)]
              /\ UNCHANGED faults
           \/ /\ mode[c.ip] = "splitter" /\ ~p.panic /\ ~Present(p.bucket, p.key)
              /\ calls' = [calls EXCEPT ![n] = Finish([c EXCEPT !.gets = @ + 1], 500, "store", <<>>)]
              /\ UNCHANGED faults
           \/ /\ mode[c.ip] = "splitter" /\ ~p.panic /\ Present(p.bucket, p.key)
              /\ \E fail \in MayFail :
                    IF fail
                    THEN /\ calls' = [calls EXCEPT ![n] =
                                Finish([c EXCEPT !.gets = @ + 1], 500, "store", <<>>)]
                         /\ faults' = faults + 1
                    ELSE /\ calls' = [calls EXCEPT ![n] =
                                [c EXCEPT !.gets = @ + 1,
                                          !.reads = Append(@, store[<<p.bucket, p.key>>]),
                                          !.bucket = p.bucket,
                                          !.lines = SplitLines(store[<<p.bucket, p.key>>]),
                                          !.pc = "upload"]]
                         /\ UNCHANGED faults
        /\ UNCHANGED <<doc, store, driver>>

\* one turn of the loop "for i := 0; i < parts; i++", and the response after the last
SplitUpload(n) ==
    LET c   == calls[n]
        key == outKey(c.out, c.i)
        url == S3Url(c.bucket, key)
        put == [c EXCEPT !.puts = @ + 1]
        ok  == [put EXCEPT !.wrote = Append(@, <<url, chunk(c.lines, c.i)>>),
                           !.slices = Append(@, SubSeq(c.lines, start(c.lines, c.i) + 1,
                                                       end(c.lines, c.i))),
                           !.urls = Append(@, url),
                           !.i = @ + 1]
    IN  /\ InFlight(n) /\ c.op = "split" /\ c.pc = "upload"
        /\ \/ /\ slicePanics(c.lines, c.i)
              /\ calls' = [calls EXCEPT ![n] = Finish(c, 500, "panic", <<>>)]
              /\ UNCHANGED <<store, faults>>
           \/ /\ ~slicePanics(c.lines, c.i) /\ c.bucket \notin Buckets
              /\ calls' = [calls EXCEPT ![n] = Finish(put, 500, "store", <<>>)]
              /\ UNCHANGED <<store, faults>>
           \/ /\ ~slicePanics(c.lines, c.i) /\ c.bucket \in Buckets
              /\ \E fail \in MayFail :
                    IF fail
                    THEN /\ calls' = [calls EXCEPT ![n] = Finish(put, 500, "store", <<>>)]
                         /\ faults' = faults + 1
                         /\ UNCHANGED store
                    ELSE /\ store' = Put(c.bucket, key, chunk(c.lines, c.i))
                         /\ calls' = [calls EXCEPT ![n] =
                                IF c.i + 1 < parts THEN ok ELSE Finish(ok, 200, "", ok.urls)]
                         /\ UNCHANGED faults
        /\ UNCHANGED <<doc, driver>>

(***************************************************************************)
(* GET /map                                                                *)
(***************************************************************************)
\* the handler without its check of MODE
MapDownload_NoModeCheck(n) ==
    LET c == calls[n]
        p == parseS3(c.input)
    IN  /\ InFlight(n) /\ c.op = "map" /\ c.pc = "recv"
        /\ \/ /\ p.panic
              /\ calls' = [calls EXCEPT ![n] = Finish(c, 500, "panic", <<>>)]
              /\ UNCHANGED faults
           \/ /\ ~p.panic /\ ~Present(p.bucket, p.key)
              /\ calls' = [calls EXCEPT ![n] = Finish([c EXCEPT !.gets = @ + 1], 500, "store", <<>>)]
              /\ UNCHANGED faults
           \/ /\ ~p.panic /\ Present(p.bucket, p.key)
              /\ \E fail \in MayFail :
                    IF fail
                    THEN /\ calls' = [calls EXCEPT ![n] =
                                Finish([c EXCEPT !.gets = @ + 1], 500, "store", <<>>)]
                         /\ faults' = faults + 1
                    ELSE /\ calls' = [calls EXCEPT ![n] =
                                [c EXCEPT !.gets = @ + 1,
                                          !.reads = Append(@, store[<<p.bucket, p.key>>]),
                                          !.js = Marshal(counts(store[<<p.bucket, p.key>>])),
                                          !.pc = "put"]]
                         /\ UNCHANGED faults
        /\ UNCHANGED <<doc, store, driver>>

\* the handler up to the download of the chunk, the counting and json.Marshal
MapDownload(n) ==
    LET c == calls[n]
        p == parseS3(c.input)
    IN  /\ InFlight(n) /\ c.op = "map" /\ c.pc = "recv"
        /\ \/ /\ mode[c.ip] # "mapper"
              /\ calls' = [calls EXCEPT ![n] = Finish(c, 400, "mode", <<>>)]
              /\ UNCHANGED faults
           \/ /\ mode[c.ip] = "mapper" /\ p.panic
              /\ calls' = [calls EXCEPT ![n] = Finish(c, 500, "panic", <<>>)]
              /\ UNCHANGED faults
           \/ /\ mode[c.ip] = "mapper" /\ ~p.panic /\ ~Present(p.bucket, p.key)
              /\ calls' = [calls EXCEPT ![n] = Finish([c EXCEPT !.gets = @ + 1], 500, "store", <<>>)]
              /\ UNCHANGED faults
           \/ /\ mode[c.ip] = "mapper" /\ ~p.panic /\ Present(p.bucket, p.key)
              /\ \E fail \in MayFail :
                    IF fail
                    THEN /\ calls' = [calls EXCEPT ![n] =
                                Finish([c EXCEPT !.gets = @ + 1], 500, "store", <<>>)]
                         /\ faults' = faults + 1
                    ELSE /\ calls' = [calls EXCEPT ![n] =
                                [c EXCEPT !.gets = @ + 1,
                                          !.reads = Append(@, store[<<p.bucket, p.key>>]),
                                          !.js = Marshal(counts(store[<<p.bucket, p.key>>])),
                                          !.pc = "put"]]
                         /\ UNCHANGED faults
        /\ UNCHANGED <<doc, store, driver>>

\* parseS3(outS3), the upload of the JSON and the response
MapUpload(n) ==
    LET c   == calls[n]
        p   == parseS3(c.out)
        put == [c EXCEPT !.puts = @ + 1]
    IN  /\ InFlight(n) /\ c.op = "map" /\ c.pc = "put"
        /\ \/ /\ p.panic
              /\ calls' = [calls EXCEPT ![n] = Finish(c, 500, "panic", <<>>)]
              /\ UNCHANGED <<store, faults>>
           \/ /\ ~p.panic /\ p.bucket \notin Buckets
              /\ calls' = [calls EXCEPT ![n] = Finish(put, 500, "store", <<>>)]
              /\ UNCHANGED <<store, faults>>
           \/ /\ ~p.panic /\ p.bucket \in Buckets
              /\ \E fail \in MayFail :
                    IF fail
                    THEN /\ calls' = [calls EXCEPT ![n] = Finish(put, 500, "store", <<>>)]
                         /\ faults' = faults + 1
                         /\ UNCHANGED store
                    ELSE /\ store' = Put(p.bucket, p.key, c.js)
                         /\ calls' = [calls EXCEPT ![n] =
                                Finish([put EXCEPT !.wrote = Append(@, <<c.out, c.js>>)],
                                       200, "", c.out)]
                         /\ UNCHANGED faults
        /\ UNCHANGED <<doc, driver>>

(***************************************************************************)
(* GET /reduce                                                             *)
(***************************************************************************)
\* one turn of the loop "for _, in := range inputs"; the first turn follows
\* the mode check
ReduceDownload(n) ==
    LET c    == calls[n]
        p    == parseS3(c.inputs[c.i + 1])
        data == store[<<p.bucket, p.key>>]
        got  == [c EXCEPT !.gets = @ + 1]
    IN  /\ InFlight(n) /\ c.op = "reduce"
        /\ \/ c.pc = "recv" /\ (mode[c.ip] = "reducer" => Len(c.inputs) > 0)
           \/ c.pc = "download"
        /\ \/ /\ c.pc = "recv" /\ mode[c.ip] # "reducer"
              /\ calls' = [calls EXCEPT ![n] = Finish(c, 400, "mode", <<>>)]
              /\ UNCHANGED faults
           \/ /\ c.pc = "recv" => mode[c.ip] = "reducer"
              /\ p.panic
              /\ calls' = [calls EXCEPT ![n] = Finish(c, 500, "panic", <<>>)]
              /\ UNCHANGED faults
           \/ /\ c.pc = "recv" => mode[c.ip] = "reducer"
              /\ ~p.panic /\ ~Present(p.bucket, p.key)
              /\ calls' = [calls EXCEPT ![n] = Finish(got, 500, "store", <<>>)]
              /\ UNCHANGED faults
           \/ /\ c.pc = "recv" => mode[c.ip] = "reducer"
              /\ ~p.panic /\ Present(p.bucket, p.key)
              /\ \E fail \in MayFail :
                    IF fail
                    THEN /\ calls' = [calls EXCEPT ![n] = Finish(got, 500, "store", <<>>)]
                         /\ faults' = faults + 1
                    ELSE /\ calls' = [calls EXCEPT ![n] =
                                [got EXCEPT !.reads = Append(@, data),
                                            !.total = Merge(@, Unmarshal(data).m),
                                            !.i = @ + 1,
                                            !.pc = IF c.i + 1 < Len(c.inputs)
                                                   THEN "download" ELSE "put"]]
                         /\ UNCHANGED faults
        /\ UNCHANGED <<doc, store, driver>>

\* json.Marshal(total), parseS3(outS3), the upload and the response
ReduceUpload(n) ==
    LET c   == calls[n]
        p   == parseS3(c.out)
        js  == Marshal(c.total)
        put == [c EXCEPT !.puts = @ + 1, !.js = js]
    IN  /\ InFlight(n) /\ c.op = "reduce"
        /\ \/ c.pc = "put"
           \/ c.pc = "recv" /\ mode[c.ip] = "reducer" /\ Len(c.inputs) = 0
        /\ \/ /\ p.panic
              /\ calls' = [calls EXCEPT ![n] = Finish(c, 500, "panic", <<>>)]
              /\ UNCHANGED <<store, faults>>
           \/ /\ ~p.panic /\ p.bucket \notin Buckets
              /\ calls' = [calls EXCEPT ![n] = Finish(put, 500, "store", <<>>)]
              /\ UNCHANGED <<store, faults>>
           \/ /\ ~p.panic /\ p.bucket \in Buckets
              /\ \E fail \in MayFail :
                    IF fail
                    THEN /\ calls' = [calls EXCEPT ![n] = Finish(put, 500, "store", <<>>)]
                         /\ faults' = faults + 1
                         /\ UNCHANGED store
                    ELSE /\ store' = Put(p.bucket, p.key, js)
                         /\ calls' = [calls EXCEPT ![n] =
                                Finish([put EXCEPT !.wrote = Append(@, <<c.out, js>>)],
                                       200, "", c.out)]
                         /\ UNCHANGED faults
        /\ UNCHANGED <<doc, driver>>

(***************************************************************************)
(* Clients                                                                 *)
(***************************************************************************)
\* a request of a client other than the driver
Request ==
    /\ driver.pc = "off"
    /\ Len(calls) < MaxCalls
    /\ \E r \in Requests : calls' = Append(calls, r)
    /\ UNCHANGED <<doc, store, driver, faults>>

\* curl "http://$SPLITTER_IP:8080/split?input_s3=$INPUT&parts=$PARTS&out_prefix=$OUT_PREFIX"
DriverSplit ==
    /\ driver.pc = "split"
    /\ calls' = Append(calls, NewCall("split", "SPLITTER_IP", INPUT, <<>>,
                                      OUT_PREFIX(driver.PARTS), driver.PARTS))
    /\ driver' = [driver EXCEPT !.pc = "split_wait"]
    /\ UNCHANGED <<doc, store, faults>>

\* curl returns with the response, whatever its status; the body goes to /dev/null
DriverSplitReturn ==
    /\ driver.pc = "split_wait"
    /\ ~InFlight(1)
    /\ driver' = [driver EXCEPT !.pc = "map", !.i = 0]
    /\ UNCHANGED <<doc, store, calls, faults>>

\* (curl "http://$MAPPER_IP:8080/map?chunk_s3=$CHUNK&out_s3=$OUTMAP" > /dev/null &)
DriverMap ==
    /\ driver.pc = "map"
    /\ driver.i < driver.PARTS
    /\ calls' = Append(calls, NewCall("map", "MAPPER_IP", CHUNK(driver.PARTS, driver.i), <<>>,
                                      OUTMAP(driver.PARTS, driver.i), 0))
    /\ driver' = [driver EXCEPT !.i = @ + 1]
    /\ UNCHANGED <<doc, store, faults>>

\* wait: the curl processes were started by subshells, so this shell has no
\* background job to wait for and wait returns at once
DriverWait ==
    /\ driver.pc = "map"
    /\ driver.i = driver.PARTS
    /\ driver' = [driver EXCEPT !.pc = "reduce",
                                !.joined = \A n \in DOMAIN calls : ~InFlight(n)]
    /\ UNCHANGED <<doc, store, calls, faults>>

\* curl "http://$REDUCER_IP:8080/reduce?${IN_PARAMS:1}&out_s3=s3://$BUCKET/$REDUCE_OUT"
DriverReduce ==
    /\ driver.pc = "reduce"
    /\ calls' = Append(calls, NewCall("reduce", "REDUCER_IP", <<>>, IN_PARAMS(driver.PARTS),
                                      FINAL(driver.PARTS), 0))
    /\ driver' = [driver EXCEPT !.pc = "reduce_wait"]
    /\ UNCHANGED <<doc, store, faults>>

DriverReduceReturn ==
    /\ driver.pc = "reduce_wait"
    /\ ~InFlight(driver.PARTS + 2)
    /\ driver' = [driver EXCEPT !.pc = "done"]
    /\ UNCHANGED <<doc, store, calls, faults>>

Next ==
    \/ Request
    \/ DriverSplit
    \/ DriverSplitReturn
    \/ DriverMap
    \/ DriverWait
    \/ DriverReduce
    \/ DriverReduceReturn
    \/ \E n \in DOMAIN calls : SplitDownload(n)
    \/ \E n \in DOMAIN calls : SplitUpload(n)
    \/ \E n \in DOMAIN calls : MapDownload(n)
    \/ \E n \in DOMAIN calls : MapUpload(n)
    \/ \E n \in DOMAIN calls : ReduceDownload(n)
    \/ \E n \in DOMAIN calls : ReduceUpload(n)

Spec == Init /\ [][Next]_vars

(***************************************************************************)
(* Properties                                                              *)
(***************************************************************************)
Succeeded(n) == n \in DOMAIN calls /\ calls[n].status = 200

Ended(n) == n \in DOMAIN calls /\ calls[n].pc = "done"

SplitCalls == {n \in DOMAIN calls : calls[n].op = "split"}

MapCalls == {n \in DOMAIN calls : calls[n].op = "map"}

ReduceCalls == {n \in DOMAIN calls : calls[n].op = "reduce"}

\* ceil(L / P) for P > 0
Ceil(L, P) == (L + P - 1) \div P

RECURSIVE Flatten(_)
Flatten(ss) == IF Len(ss) = 0 THEN <<>> ELSE ss[1] \o Flatten(Tail(ss))

\* the lines of the Document a split call has read
DocLines(c) == SplitLines(c.reads[1])

\* C1 (as claimed): a successful split(source, P, prefix) persists P chunks
\* whose line counts sum to the number L of lines of the Document, each of at
\* most ceil(L/P) lines, and their concatenation in index order is the
\* Document's line sequence.
C1_SplitCompleteness ==
    \A n \in SplitCalls :
        Succeeded(n) =>
            LET c == calls[n]
                P == c.partsq
                L == Len(DocLines(c))
            IN  /\ Len(c.wrote) = P
                /\ Len(Flatten(c.slices)) = L
                /\ \A k \in DOMAIN c.slices : Len(c.slices[k]) <= Ceil(L, P)
                /\ Flatten(c.slices) = DocLines(c)

\* C2 (as claimed): a successful split with part count P returns exactly P
\* addresses, the i-th being the address of chunk i under the prefix, each
\* written by that call.
C2_SplitReturnsPartCountAddresses ==
    \A n \in SplitCalls :
        Succeeded(n) =>
            LET c == calls[n]
            IN  /\ Len(c.body) = c.partsq
                /\ Len(c.wrote) = c.partsq
                /\ \A k \in DOMAIN c.body :
                      /\ k \in DOMAIN c.wrote
                      /\ c.wrote[k][1] = c.body[k]
                      /\ HasSuffix(c.out, Slash) =>
                            c.body[k] = S3Url(c.bucket, c.out \o ChunkPrefix
                                                        \o Itoa(k - 1) \o TxtSuffix)

\* C3 (as claimed): when the part count exceeds the number of lines and the
\* store does not fail, split succeeds, persists every chunk index (the
\* trailing ones empty) and returns all the addresses; no slice bound is
\* violated.  Stated for the requests that ask for as many parts as the
\* handler cuts, so that the handler's own part count plays no role.
C3_MorePartsThanLines ==
    \A n \in SplitCalls :
        LET c == calls[n]
        IN  (/\ Ended(n)
             /\ Len(c.reads) = 1
             /\ c.err # "store"
             /\ c.partsq = parts
             /\ c.partsq > Len(DocLines(c)))
            => /\ c.err # "panic"
               /\ c.status = 200
               /\ Len(c.body) = c.partsq
               /\ \A k \in DOMAIN c.wrote :
                     k > Len(DocLines(c)) => c.wrote[k][2] = <<>>

(***************************************************************************)
(* The pipeline run by the driver                                          *)
(***************************************************************************)
\* the driver has sent its last request and got the response, every map
\* call had ended when the reduce request was sent, and no store operation
\* failed for an outside reason
PipelineRan == driver.pc = "done" /\ driver.joined /\ faults = 0

FinalKey == <<BUCKET, REDUCE_OUT(driver.PARTS)>>

\* the map and reduce calls of the driver
DriverMapCalls == {n \in MapCalls : n <= driver.PARTS + 1}

DriverReduceCall == driver.PARTS + 2

\* C4 (as claimed): for every Document and every part count, split, then map
\* per chunk, then reduce over the map outputs persists a final CountMap
\* equal to the CountMap of the whole Document.
C4_EndToEnd ==
    PipelineRan =>
        /\ FinalKey \in DOMAIN store
        /\ Unmarshal(store[FinalKey]).m = counts(doc)

KingRun == PipelineRan /\ doc = KingDoc /\ driver.PARTS = 2

The   == <<"t", "h", "e">>
King  == <<"k", "i", "n", "g">>
Is    == <<"i", "s">>
Dead  == <<"d", "e", "a", "d">>
Long  == <<"l", "o", "n", "g">>
Live  == <<"l", "i", "v", "e">>

KingWords == {The, King, Is, Dead, Long, Live}

\* the mapping of the example with the given count for "the"
KingMapping(the) ==
    [w \in KingWords |-> IF w = The THEN the ELSE IF w = King THEN 3 ELSE 1]

ReadableReduce(n) ==
    /\ n \in ReduceCalls
    /\ Succeeded(n)
    /\ \A j \in DOMAIN calls[n].reads : Unmarshal(calls[n].reads[j]).ok

\* the CountMap a successful map or reduce call has persisted
Written(n) == Unmarshal(calls[n].wrote[1][2]).m

\* the value of key k summed over the list positions
RECURSIVE SumAt(_, _)
SumAt(blobs, k) ==
    IF Len(blobs) = 0 THEN 0
    ELSE Get(Unmarshal(blobs[1]).m, k) + SumAt(Tail(blobs), k)

KeysOf(blobs) == UNION {DOMAIN Unmarshal(blobs[j]).m : j \in DOMAIN blobs}

\* C6: after a successful reduce the final value of every key is the sum,
\* over the list positions, of the key's value in the partial at that
\* position (an address listed twice counts twice), and no key absent from
\* all the partials is in the total.
C6_ReduceAdditivity ==
    \A n \in ReduceCalls :
        ReadableReduce(n) =>
            LET c == calls[n]
            IN  /\ Len(c.reads) = Len(c.inputs)
                /\ DOMAIN Written(n) \subseteq KeysOf(c.reads)
                /\ \A k \in KeysOf(c.reads) : Get(Written(n), k) = SumAt(c.reads, k)

\* a reduce over an address listed twice whose partial is not empty
C6_Witness ==
    \E n \in ReduceCalls :
        /\ ReadableReduce(n)
        /\ Len(calls[n].inputs) = 2
        /\ calls[n].inputs[1] = calls[n].inputs[2]
        /\ \E k \in DOMAIN Written(n) : Written(n)[k] >= 2

Perms(n) == {f \in [1..n -> 1..n] : \A a, b \in 1..n : f[a] = f[b] => a = b}

\* C7: reducing any permutation of the partials gives the final CountMap of
\* the call, and so does reducing two sub-lists separately and then reducing
\* the two persisted intermediate totals.
C7_ReduceCommutativeAssociative ==
    \A n \in ReduceCalls :
        ReadableReduce(n) =>
            LET blobs == calls[n].reads
                len   == Len(blobs)
            IN  /\ \A f \in Perms(len) :
                      reduceTotal([j \in 1..len |-> blobs[f[j]]]) = Written(n)
                /\ \A k \in 0..len :
                      reduceTotal(<<Marshal(reduceTotal(SubSeq(blobs, 1, k))),
                                    Marshal(reduceTotal(SubSeq(blobs, k + 1, len)))>>)
                          = Written(n)

\* a reduce over two partials that give different counts to a common key
C7_Witness ==
    \E n \in ReduceCalls :
        /\ ReadableReduce(n)
        /\ \E a, b \in DOMAIN calls[n].reads :
              \E k \in KeysOf(calls[n].reads) :
                  /\ Get(Unmarshal(calls[n].reads[a]).m, k) > 0
                  /\ Get(Unmarshal(calls[n].reads[b]).m, k)
                        > Get(Unmarshal(calls[n].reads[a]).m, k)

(***************************************************************************)
(* Map                                                                     *)
(***************************************************************************)
\* the positions at which a maximal run of ASCII letters and digits starts
RunStarts(s) == {n \in DOMAIN s : IsAlnum(s[n]) /\ (n = 1 \/ ~IsAlnum(s[n - 1]))}

\* the maximal run that starts at position n
RunAt(s, n) ==
    SubSeq(s, n, CHOOSE e \in n..Len(s) :
                    /\ \A j \in n..e : IsAlnum(s[j])
                    /\ (e = Len(s) \/ ~IsAlnum(s[e + 1])))

RECURSIVE SumValues(_, _)
SumValues(m, ks) ==
    IF ks = {} THEN 0
    ELSE LET k == CHOOSE x \in ks : TRUE IN m[k] + SumValues(m, ks \ {k})

\* C8 (as claimed): the counts written by map sum to the number of maximal
\* runs of ASCII letters and digits in the chunk, and the count of a key is
\* the number of those runs whose lower-cased form is the key.
C8_TokenConservationAsClaimed ==
    \A n \in MapCalls :
        Succeeded(n) =>
            LET text == calls[n].reads[1]
                m    == Written(n)
            IN  /\ SumValues(m, DOMAIN m) = Cardinality(RunStarts(text))
                /\ \A k \in DOMAIN m \cup {ToLower(RunAt(text, j)) : j \in RunStarts(text)} :
                      Get(m, k) = Cardinality({j \in RunStarts(text) :
                                                  ToLower(RunAt(text, j)) = k})

\* C8 (amended): the counts written by map sum to the number of maximal runs
\* of ASCII letters and digits in the lower-cased chunk text, and the count
\* of a key is the number of those runs equal to the key.
C8_TokenConservation ==
    \A n \in MapCalls :
        Succeeded(n) =>
            LET text == ToLower(calls[n].reads[1])
                m    == Written(n)
                runs == [j \in RunStarts(text) |-> RunAt(text, j)]
            IN  /\ SumValues(m, DOMAIN m) = Cardinality(DOMAIN runs)
                /\ \A k \in DOMAIN m \cup Range(runs) :
                      Get(m, k) = Cardinality({j \in DOMAIN runs : runs[j] = k})

\* a map over a text in which the KELVIN SIGN stands next to a letter
C8_Witness ==
    \E n \in MapCalls :
        /\ Succeeded(n)
        /\ Kelvin \in Range(calls[n].reads[1])
        /\ \E k \in DOMAIN Written(n) : Len(k) >= 2

(***************************************************************************)
(* Malformed addresses                                                     *)
(***************************************************************************)
\* an address that is not scheme://container/key: the scheme separator or
\* the separator between container and key is missing
Malformed(url) ==
    \/ ~HasPrefix(url, S3Scheme)
    \/ IndexByte(SubSeq(url, Len(S3Scheme) + 1, Len(url)), "/") < 0

\* the call was not rejected for its role and has an input address that is malformed
MalformedInput(c) ==
    /\ c.status # 400
    /\ \/ c.op \in {"split", "map"} /\ Malformed(c.input)
       \/ c.op = "reduce" /\ \E j \in DOMAIN c.inputs : Malformed(c.inputs[j])

\* C9 (as claimed): a split, map or reduce call with a malformed input
\* address fails with an address-parse failure and performs no blob-store
\* operation.
C9_MalformedInputAddress ==
    \A n \in DOMAIN calls :
        (Ended(n) /\ MalformedInput(calls[n])) =>
            /\ calls[n].err = "panic"
            /\ calls[n].gets = 0
            /\ calls[n].puts = 0

\* C10 (as claimed): a map or reduce call with well-formed input addresses
\* and a malformed output address reports an address-parse failure without
\* having issued any blob-store read or write.
C10_MalformedOutputAddress ==
    \A n \in MapCalls \cup ReduceCalls :
        (/\ Ended(n)
         /\ calls[n].status # 400
         /\ ~MalformedInput(calls[n])
         /\ Malformed(calls[n].out))
        => /\ calls[n].err = "panic"
           /\ calls[n].gets = 0
           /\ calls[n].puts = 0

(***************************************************************************)
(* Failures                                                                *)
(***************************************************************************)
\* a reduce call that passed the role check and met a partial it could not
\* read, or read one that is not the JSON of a CountMap
BadPartial(n) ==
    LET c == calls[n]
    IN  /\ n \in ReduceCalls /\ Ended(n) /\ c.status # 400
        /\ \/ Len(c.reads) < Len(c.inputs)
           \/ \E j \in DOMAIN c.reads : ~Unmarshal(c.reads[j]).ok

\* C11 (as claimed): a reduce call with an unreadable or unparsable partial
\* fails and writes nothing to the final address.
C11_ReduceAllOrNothing ==
    \A n \in ReduceCalls :
        BadPartial(n) =>
            /\ calls[n].status # 200
            /\ calls[n].puts = 0
            /\ calls[n].wrote = <<>>

(***************************************************************************)
(* The driver's map phase                                                  *)
(***************************************************************************)
\* C12 (as claimed): the driver sends the reduce request only after every
\* map request it launched has ended, so no map call of the driver is in
\* flight once the reduce call exists.
C12_JoinBarrier ==
    (driver.pc # "off" /\ DriverReduceCall \in DOMAIN calls) =>
        \A n \in DriverMapCalls : ~InFlight(n)

(***************************************************************************)
(* Roles                                                                   *)
(***************************************************************************)
\* the role whose instances serve an operation
RoleOf(op) ==
    CASE op = "split"  -> "splitter"
      [] op = "map"    -> "mapper"
      [] op = "reduce" -> "reducer"

\* a request sent to an instance configured with another role
WrongRole(c) == mode[c.ip] # RoleOf(c.op)

\* C13: an operation invoked on an instance configured with another role is
\* rejected as a configuration mismatch; it parses no address and performs no
\* blob-store get or put.
C13_RoleEnforcement ==
    \A n \in DOMAIN calls :
        WrongRole(calls[n]) =>
            LET c == calls[n]
            IN  /\ c.pc \in {"recv", "done"}
                /\ c.gets = 0 /\ c.puts = 0
                /\ c.reads = <<>> /\ c.wrote = <<>>
                /\ Ended(n) => (c.status = 400 /\ c.err = "mode")

\* each operation has been rejected by an instance of another role, the map
\* request with an address that cannot be parsed
C13_Witness ==
    /\ \E n \in MapCalls :
          WrongRole(calls[n]) /\ Ended(n) /\ Malformed(calls[n].input)
    /\ \E n \in DOMAIN calls :
          WrongRole(calls[n]) /\ Ended(n) /\ calls[n].op # "map"

(***************************************************************************)
(* Repeated and concurrent calls                                           *)
(***************************************************************************)
\* the place in the store an address names
KeyOf(url) == <<parseS3(url).bucket, parseS3(url).key>>

\* the calls other than those of ns that have written to the address
OtherWriters(url, ns) ==
    {k \in DOMAIN calls \ ns :
        \E j \in DOMAIN calls[k].wrote : KeyOf(calls[k].wrote[j][1]) = KeyOf(url)}

\* two successful map calls with the same arguments that read the same bytes
SameMap(a, b) ==
    /\ a \in MapCalls /\ b \in MapCalls /\ a # b
    /\ Succeeded(a) /\ Succeeded(b)
    /\ calls[a].input = calls[b].input
    /\ calls[a].out = calls[b].out
    /\ calls[a].reads = calls[b].reads

\* C14: two map calls with the same chunk address and output address over
\* unchanged chunk bytes write equal CountMaps, and the output address holds
\* after both what the first call wrote.
C14_MapIdempotent ==
    \A a, b \in MapCalls :
        SameMap(a, b) =>
            /\ calls[a].wrote = calls[b].wrote
            /\ Written(a) = counts(calls[a].reads[1])
            /\ OtherWriters(calls[a].out, {a, b}) = {} =>
                  store[KeyOf(calls[a].out)] = calls[a].wrote[1][2]

\* the same map request served twice on a chunk that holds words
C14_Witness ==
    \E a, b \in MapCalls :
        /\ SameMap(a, b)
        /\ DOMAIN Written(a) # {}
        /\ OtherWriters(calls[a].out, {a, b}) = {}

(***************************************************************************)
(* Splitter abort sequence                                                 *)
(***************************************************************************)
\* the split call got a store-I/O failure from the download of the source
SplitReadFailed(c) == c.op = "split" /\ c.err = "store" /\ c.reads = <<>>

\* the split call got a store-I/O failure from the upload of a chunk
SplitWriteFailed(c) == c.op = "split" /\ c.err = "store" /\ Len(c.reads) = 1

\* C15: a split whose source read fails writes nothing; a split whose write
\* of chunk i fails stops at once: chunks 0..i-1 stay persisted with the
\* content it cut for them, no chunk of a greater index is written, and the
\* caller gets a store-I/O failure and no address list.
C15_SplitAbort ==
    \A n \in SplitCalls :
        LET c == calls[n]
            i == Len(c.wrote)
        IN  /\ SplitReadFailed(c) =>
                  /\ Ended(n) /\ c.status = 500 /\ c.body = <<>>
                  /\ c.gets = 1 /\ c.puts = 0 /\ c.wrote = <<>>
            /\ SplitWriteFailed(c) =>
                  /\ Ended(n) /\ c.status = 500 /\ c.body = <<>>
                  /\ c.puts = i + 1 /\ c.i = i
                  /\ \A k \in 0..(i - 1) :
                        /\ c.wrote[k + 1] = <<S3Url(c.bucket, outKey(c.out, k)),
                                              chunk(DocLines(c), k)>>
                        /\ store[<<c.bucket, outKey(c.out, k)>>] = chunk(DocLines(c), k)
                  /\ \A k \in (i + 1)..(parts - 1) :
                        OtherWriters(S3Url(c.bucket, outKey(c.out, k)), {n}) = {}
                            => <<c.bucket, outKey(c.out, k)>> \notin DOMAIN store

\* a split whose source read failed, and a split whose write of the second
\* chunk failed on a document of several lines
C15_Witness ==
    /\ \E n \in SplitCalls : Ended(n) /\ SplitReadFailed(calls[n])
    /\ \E n \in SplitCalls :
          /\ Ended(n) /\ SplitWriteFailed(calls[n])
          /\ Len(calls[n].wrote) = 1
          /\ calls[n].wrote[1][2] # <<>>

\* the driver has launched all its map calls and all of them have ended
MapsEnded ==
    /\ driver.pc # "off"
    /\ driver.i = driver.PARTS
    /\ Cardinality(DriverMapCalls) = driver.PARTS
    /\ \A n \in DriverMapCalls : Ended(n)

\* the chunk addresses of the calls are pairwise distinct, so are their
\* output addresses, and no output address is a chunk address
Disjoint(ns) ==
    /\ \A a, b \in ns :
          a # b => /\ KeyOf(calls[a].input) # KeyOf(calls[b].input)
                   /\ KeyOf(calls[a].out) # KeyOf(calls[b].out)
    /\ \A a, b \in ns : KeyOf(calls[a].out) # KeyOf(calls[b].input)

\* C16: the map calls of the driver run concurrently on pairwise distinct
\* chunk and output addresses; once all have ended, whatever the
\* interleaving of their reads and writes, the output address of every
\* successful call holds exactly the CountMap of its own chunk.
C16_ConcurrentMappers ==
    MapsEnded =>
        /\ Disjoint(DriverMapCalls)
        /\ \A n \in DriverMapCalls :
              Succeeded(n) =>
                  /\ calls[n].reads = <<store[KeyOf(calls[n].input)]>>
                  /\ store[KeyOf(calls[n].out)] = Marshal(counts(store[KeyOf(calls[n].input)]))

\* three map calls of the driver have succeeded on chunks with different
\* CountMaps
C16_Witness ==
    /\ MapsEnded
    /\ driver.PARTS = 3
    /\ \A n \in DriverMapCalls : Succeeded(n)
    /\ \E a, b \in DriverMapCalls :
          /\ Written(a) # Written(b)
          /\ DOMAIN Written(a) # {} /\ DOMAIN Written(b) # {}

\* the call has made a successful upload in this step
Wrote(n) == n \in DOMAIN calls /\ Len(calls'[n].wrote) > Len(calls[n].wrote)

\* what the call has uploaded in this step: <<address, bytes>>
LastWrote(n) == calls'[n].wrote[Len(calls'[n].wrote)]

\* C17: an upload to an address, whatever the address held and whoever
\* wrote it, succeeds and leaves exactly the uploaded bytes there (for a map
\* or reduce call the complete JSON of its CountMap, and the call answers
\* 200), and nothing but an upload changes what an address holds: after
\* several calls on one address it holds what the last upload wrote.
C17_LastWriterWins ==
    [][/\ \A n \in DOMAIN calls :
             Wrote(n) =>
                 /\ store'[KeyOf(LastWrote(n)[1])] = LastWrote(n)[2]
                 /\ calls[n].op \in {"map", "reduce"} =>
                       /\ calls'[n].status = 200
                       /\ LastWrote(n)[1] = calls[n].out
                       /\ Unmarshal(LastWrote(n)[2]).ok
                       /\ LastWrote(n)[2] = Marshal(Unmarshal(LastWrote(n)[2]).m)
       /\ \A a \in DOMAIN store' :
             (\A n \in DOMAIN calls : Wrote(n) => KeyOf(LastWrote(n)[1]) # a) =>
                 a \in DOMAIN store /\ store'[a] = store[a]
      ]_vars

\* a map call and a reduce call have overlapped on one output address that
\* held an older CountMap: the call received first has written last, and the
\* address holds its CountMap, not the other call's and not the older one
C17_Witness ==
    \E a, b \in MapCalls \cup ReduceCalls :
        /\ a < b
        /\ Succeeded(a) /\ Succeeded(b)
        /\ KeyOf(calls[a].out) = KeyOf(calls[b].out)
        /\ calls[a].wrote[1][2] # calls[b].wrote[1][2]
        /\ calls[a].wrote[1][2] # OldMap /\ calls[b].wrote[1][2] # OldMap
        /\ OldMap \in Range(calls[b].reads)
        /\ store[KeyOf(calls[a].out)] = calls[a].wrote[1][2]

(***************************************************************************)
(* Statelessness                                                           *)
(***************************************************************************)
\* the call has ended in a failure: role mismatch, address-parse failure or
\* store-I/O failure
Failed(n) == Ended(n) /\ calls[n].status # 200

\* a call received earlier than n by the same instance has failed
FailedBefore(n) == \E k \in 1..(n - 1) : Failed(k) /\ calls[k].ip = calls[n].ip

\* what a successful call answers and writes, as a function of its
\* arguments and of the bytes it has read, and of nothing else
FreshResult(c) ==
    CASE c.op = "split" ->
            [body  |-> [k \in 1..parts |-> S3Url(parseS3(c.input).bucket, outKey(c.out, k - 1))],
             wrote |-> [k \in 1..parts |->
                          <<S3Url(parseS3(c.input).bucket, outKey(c.out, k - 1)),
                            chunk(SplitLines(c.reads[1]), k - 1)>>]]
      [] c.op = "map" ->
            [body  |-> c.out,
             wrote |-> <<<<c.out, Marshal(counts(c.reads[1]))>>>>]
      [] c.op = "reduce" ->
            [body  |-> c.out,
             wrote |-> <<<<c.out, Marshal(reduceTotal(c.reads))>>>>]

\* C18: a failed map or reduce call has written nothing and a failed split
\* call nothing but chunks under its own prefix; a call that succeeds on an
\* instance after a call to it has failed answers and writes what its
\* arguments and the bytes it reads decide, as it would without the failed
\* call.
C18_StatelessAcrossFailures ==
    \A n \in DOMAIN calls :
        /\ (Failed(n) /\ calls[n].op \in {"map", "reduce"}) => calls[n].wrote = <<>>
        /\ (Failed(n) /\ calls[n].op = "split") =>
              \A k \in DOMAIN calls[n].wrote :
                  calls[n].wrote[k][1] = S3Url(calls[n].bucket, outKey(calls[n].out, k - 1))
        /\ (Succeeded(n) /\ FailedBefore(n)) =>
              /\ calls[n].body = FreshResult(calls[n]).body
              /\ calls[n].wrote = FreshResult(calls[n]).wrote

\* a reduce call has succeeded on partials that hold words after the reduce
\* call before it ended in an address-parse failure with one partial read
C18_Witness ==
    \E a, b \in ReduceCalls :
        /\ a < b
        /\ Failed(a) /\ calls[a].err = "panic" /\ Len(calls[a].reads) = 1
        /\ calls[a].ip = calls[b].ip
        /\ Succeeded(b)
        /\ DOMAIN Written(b) # {}

(***************************************************************************)
(* Output prefix                                                           *)
(***************************************************************************)
\* the prefix without any of the separators it ends with
RECURSIVE StripSlashes(_)
StripSlashes(prefix) ==
    IF HasSuffix(prefix, Slash) THEN StripSlashes(SubSeq(prefix, 1, Len(prefix) - 1))
    ELSE prefix

ChunkName(i) == ChunkPrefix \o Itoa(i) \o TxtSuffix

\* the addresses a split call has written and returned are those of the keys
\* key(i), in the container of the source
KeysAre(c, key(_)) ==
    /\ \A k \in DOMAIN c.wrote : c.wrote[k][1] = S3Scheme \o c.bucket \o Slash \o key(k - 1)
    /\ c.status = 200 => c.body = [k \in 1..Len(c.wrote) |-> c.wrote[k][1]]

\* C19 (as claimed): whether the prefix ends with zero, one or several "/",
\* the key of chunk i is the prefix without them, one "/" and the chunk's
\* name.
C19_PrefixNormalizedAsClaimed ==
    \A n \in SplitCalls :
        LET atMostOne(i) == StripSlashes(calls[n].out) \o Slash \o ChunkName(i)
        IN  KeysAre(calls[n], atMostOne)

\* C19 (amended): a prefix that ends with "/" is used as it is, with all the
\* separators it ends with, and a prefix that does not gets one "/" added;
\* the chunk's name follows.
C19_PrefixNormalized ==
    \A n \in SplitCalls :
        LET verbatim(i) == IF HasSuffix(calls[n].out, Slash)
                           THEN calls[n].out \o ChunkName(i)
                           ELSE calls[n].out \o Slash \o ChunkName(i)
        IN  KeysAre(calls[n], verbatim)

\* successful split calls with a prefix that ends with two separators and
\* with a prefix that ends with none
C19_Witness ==
    /\ \E n \in SplitCalls :
          Succeeded(n) /\ HasSuffix(calls[n].out, <<"/", "/">>)
    /\ \E n \in SplitCalls :
          Succeeded(n) /\ ~HasSuffix(calls[n].out, Slash)

(***************************************************************************)
(* Shape of the CountMaps                                                  *)
(***************************************************************************)
\* every key is a non-empty string of lowercase ASCII letters and digits and
\* every count is at least 1
WellFormed(m) ==
    \A k \in DOMAIN m :
        /\ Len(k) >= 1
        /\ \A j \in DOMAIN k : k[j] \in Range(LowerCase) \cup Range(Digit)
        /\ m[k] >= 1

\* the bytes are the JSON of a well-formed CountMap
WellFormedJSON(bytes) == Unmarshal(bytes).ok /\ WellFormed(Unmarshal(bytes).m)

\* the bytes are what a successful map call has written
MapperProduced(bytes) ==
    \E k \in MapCalls : Succeeded(k) /\ calls[k].wrote[1][2] = bytes

\* C20: every CountMap a map call persists has only non-empty keys of
\* lowercase ASCII letters and digits and counts of at least 1, and so has
\* the CountMap a reduce call persists when all its partials were written by
\* map calls; in a run of the driver nothing else is ever stored at a map or
\* reduce output address.
C20_WellFormedCountMaps ==
    /\ \A n \in MapCalls :
          Succeeded(n) => WellFormedJSON(calls[n].wrote[1][2])
    /\ \A n \in ReduceCalls :
          (Succeeded(n) /\ \A j \in DOMAIN calls[n].reads : MapperProduced(calls[n].reads[j]))
              => WellFormedJSON(calls[n].wrote[1][2])
    /\ driver.pc # "off" =>
          \A n \in DriverMapCalls \cup (ReduceCalls \cap {DriverReduceCall}) :
              KeyOf(calls[n].out) \in DOMAIN store
                  => WellFormedJSON(store[KeyOf(calls[n].out)])

\* the driver's reduce call has persisted a CountMap with a count above 1
\* from three partials written by map calls, the document holding capital
\* letters
C20_Witness ==
    /\ driver.pc # "off"
    /\ \E j \in DOMAIN doc : doc[j] \in Range(UpperCase)
    /\ DriverReduceCall \in ReduceCalls
    /\ Succeeded(DriverReduceCall)
    /\ Len(calls[DriverReduceCall].reads) = 3
    /\ \A j \in DOMAIN calls[DriverReduceCall].reads :
          MapperProduced(calls[DriverReduceCall].reads[j])
    /\ \E k \in DOMAIN Written(DriverReduceCall) : Written(DriverReduceCall)[k] >= 2
    /\ KeyOf(calls[DriverReduceCall].out) \in DOMAIN store

====
